---- MODULE Spec2Model ----
(***************************************************************************)
(* SwingTradingBacktesting, src/main.py: the SwingTradingStrategy          *)
(* (init/next) replayed bar by bar by backtesting.py's Backtest, and the   *)
(* parameter search started by main() with Backtest.optimize.              *)
(*                                                                         *)
(* The strategy is translated from src/main.py.  What the calls into       *)
(* backtesting.py do (Backtest.run's bar loop, self.buy, position.close,   *)
(* the sl/tp bracket, Backtest.optimize) is modelled at the place of the   *)
(* call, after the library's documented behaviour with the arguments the   *)
(* source passes: trade_on_close is left at its default, so a market       *)
(* order placed in next() on one bar is filled at the Open of the          *)
(* following bar; commission is charged on the traded value at entry and   *)
(* at exit; trades still open when the data ends are left open.            *)
(*                                                                         *)
(* Days are numbered as the source numbers them: day = len(self.data),     *)
(* the number of bars revealed so far, so the first bar is day 1.          *)
(* Prices are integers (multiples of 10, so that 0.9 * price and           *)
(* price * (1 + tp_percent) are exact); tp_percent is held in percent;     *)
(* money is held in thousandths of a currency unit.                        *)
(***************************************************************************)
EXTENDS Integers, Sequences, FiniteSets, TLC

VARIABLES
    params,     \* the strategy parameters of this run (class attributes, lines 77-82)
    feed,       \* which series is replayed: "any" (bars drawn freely) or "flat" (the flat-price series)
    data,       \* the series revealed so far: len(self.data), the MACD_Hist column, the last bar's Open and Close
    strategy,   \* self.buy_signal_day, self.entry_day
    broker,     \* the Backtest's broker: pending order, open trade, cash, closed trades
    status,     \* "running", "done" (all bars replayed) or "error" (next() raised)
    qualified,  \* history: some bar handed to next() had RSI and CCI below the thresholds
    series,     \* the search: technical_data, the bars every run of the search replays
    ranges,     \* the search: the candidate values of each parameter, in the order given to optimize
    max_tries,  \* the search: optimize(max_tries=)
    param_combos, \* the search: the parameter combinations to run, in order
    heatmap,    \* the search: per combination, the value to maximize once its run has returned
    completed,  \* the search: the combinations whose runs have returned, in the order they returned
    search,     \* the search: "idle", "new", "running", "done" or "error"
    stats,      \* the search: what optimize returns
    workers,    \* the worker processes of the search: the run each has in progress or has left behind
    results     \* the worker processes of the search: per combination, what its run returned

runVars == <<params, feed, data, strategy, broker, status, qualified>>

searchVars == <<series, ranges, max_tries, param_combos, heatmap, completed, search, stats>>

workerVars == <<workers, results>>

vars == <<params, feed, data, strategy, broker, status, qualified,
          series, ranges, max_tries, param_combos, heatmap, completed, search, stats,
          workers, results>>

----------------------------------------------------------------------------
(* Bounds of the model *)

\* bars replayed when the bars are drawn freely
MaxBars == 5

\* bars of the flat-price series
FlatBars == 40

\* first day of the flat-price series on which RSI and CCI qualify
FlatFirstSignal == 5

----------------------------------------------------------------------------
(* Program constants *)

\* self.buy_signal_day = None, self.entry_day = None: no day is numbered 0
None == 0

\* Backtest(..., cash=10000, ...)
cash == 10000

\* Backtest(..., commission=.002), in thousandths
commission == 2

\* money is counted in thousandths of a currency unit
Mills == 1000

\* class attributes of SwingTradingStrategy (tp_percent in percent)
hold_period == 16
RSI_thresh == 30
CCI_thresh == -100
macd_hist_thresh == 0
tp_percent == 30
entry_delay == 5

Defaults ==
    [hold_period |-> hold_period, RSI_thresh |-> RSI_thresh, CCI_thresh |-> CCI_thresh,
     macd_hist_thresh |-> macd_hist_thresh, tp_percent |-> tp_percent,
     entry_delay |-> entry_delay]

----------------------------------------------------------------------------
(* Inputs: parameter sets and bars *)

\* parameter sets a single run is checked with: the class defaults with
\* hold_period, RSI_thresh, tp_percent and entry_delay overridden by small values
HoldPeriods == {1, 2}
RsiThreshs == {10, 30}
TpPercents == {0, 10, 30}
EntryDelays == {0, 1}

ParamSets ==
    { [Defaults EXCEPT !.hold_period = h, !.RSI_thresh = r, !.tp_percent = t, !.entry_delay = d] :
        h \in HoldPeriods, r \in RsiThreshs, t \in TpPercents, d \in EntryDelays }

\* the parameters of the flat-price scenario: the defaults with hold_period = 10
FlatParams == [Defaults EXCEPT !.hold_period = 10]

\* price shapes of one bar: flat, a dip to 90, a gap down to 80, a spike to 150, both
Candles ==
    { [Open |-> 100, High |-> 100, Low |-> 100, Close |-> 100],
      [Open |-> 100, High |-> 100, Low |-> 90,  Close |-> 100],
      [Open |-> 80,  High |-> 80,  Low |-> 80,  Close |-> 80],
      [Open |-> 100, High |-> 150, Low |-> 100, Close |-> 100],
      [Open |-> 100, High |-> 150, Low |-> 90,  Close |-> 100] }

RsiValues == {20, 40}
CciValues == {-150, -50}
MacdHistValues == {-1, 1}

MkBar(c, r, k, m) ==
    [Open |-> c.Open, High |-> c.High, Low |-> c.Low, Close |-> c.Close,
     RSI |-> r, CCI |-> k, MACD_Hist |-> m]

Bars == { MkBar(c, r, k, m) : c \in Candles, r \in RsiValues, k \in CciValues, m \in MacdHistValues }

\* day d of the flat-price series: Close = 100 throughout, RSI = 20 and CCI = -150
\* from day FlatFirstSignal on, MACD histogram never below the threshold
FlatBar(d) ==
    [Open |-> 100, High |-> 100, Low |-> 100, Close |-> 100,
     RSI |-> IF d >= FlatFirstSignal THEN 20 ELSE 40,
     CCI |-> IF d >= FlatFirstSignal THEN -150 ELSE -50,
     MACD_Hist |-> 1]

----------------------------------------------------------------------------
(* Arithmetic helpers *)

Min(a, b) == IF a <= b THEN a ELSE b

Max(a, b) == IF a >= b THEN a ELSE b

----------------------------------------------------------------------------
(* The broker of the Backtest built at line 151: what self.buy(sl=, tp=),  *)
(* self.position and self.position.close() act on.                         *)

\* no pending order.  Besides what the library keeps of an order (kind, sl, tp), an
\* order carries the history the properties below speak of: the day its signal was
\* recorded, the day it was placed, the Close of that day and whether that day's
\* bar itself had RSI and CCI below the thresholds
NoOrder ==
    [kind |-> "none", sl |-> 0, tp |-> 0, signal_day |-> None, day |-> None,
     price |-> 0, signal |-> FALSE]

NoTrade ==
    [entry_bar |-> 0, entry_price |-> 0, sl |-> 0, tp |-> 0, size |-> 0,
     signal_day |-> None, order_day |-> None, order_price |-> 0, order_signal |-> FALSE]

\* Backtest(technical_data, SwingTradingStrategy, cash=10000, commission=.002)
NewBroker ==
    [order |-> NoOrder, position |-> FALSE, trade |-> NoTrade,
     cash |-> cash * Mills, closed_trades |-> << >>]

\* commission=.002 of the traded value, in thousandths
Commission(size, price) == size * price * commission

\* self.buy() without size: as many whole units as the cash buys at the
\* commission-adjusted price (the library's size of "all equity" is a hair under 1)
BuySize(money, price) == (money - 1) \div (price * (Mills + commission))

\* the open trade is closed at `price` on `day` by its stop-loss ("sl"), its
\* take-profit ("tp") or a position.close() order ("close")
CloseTrade(br, price, day, reason) ==
    LET t == br.trade
        done == [entry_bar |-> t.entry_bar, exit_bar |-> day,
                 entry_price |-> t.entry_price, exit_price |-> price,
                 sl |-> t.sl, tp |-> t.tp, size |-> t.size, reason |-> reason,
                 signal_day |-> t.signal_day, order_day |-> t.order_day,
                 order_price |-> t.order_price, order_signal |-> t.order_signal,
                 pl |-> t.size * (price - t.entry_price) * Mills
                        - Commission(t.size, t.entry_price) - Commission(t.size, price)]
    IN  [br EXCEPT !.position = FALSE, !.trade = NoTrade, !.order = NoOrder,
                   !.cash = @ + t.size * (price - t.entry_price) * Mills
                              - Commission(t.size, price),
                   !.closed_trades = Append(@, done)]

\* the bracket with every exit made at the stop-loss or take-profit price itself
BracketAtLevel(br, bar, day) ==
    IF ~br.position THEN br
    ELSE IF bar.Low <= br.trade.sl
         THEN CloseTrade(br, br.trade.sl, day, "sl")
    ELSE IF bar.High >= br.trade.tp
         THEN CloseTrade(br, br.trade.tp, day, "tp")
    ELSE br

\* the bracket given to self.buy(sl=stop_loss, tp=take_profit): on every bar the
\* trade is open, the stop-loss is tried first (a stop order, filled at the stop
\* price or at the Open if the bar opened beyond it), then the take-profit (a limit order)
Bracket(br, bar, day) ==
    IF ~br.position THEN br
    ELSE IF bar.Low <= br.trade.sl
         THEN CloseTrade(br, Min(bar.Open, br.trade.sl), day, "sl")
    ELSE IF bar.High >= br.trade.tp
         THEN CloseTrade(br, Max(bar.Open, br.trade.tp), day, "tp")
    ELSE br

\* the pending market order of self.buy is filled at this bar's Open
FillBuy(br, bar, day) ==
    LET size == BuySize(br.cash, bar.Open)
    IN  IF size = 0
        THEN [br EXCEPT !.order = NoOrder]
        ELSE [br EXCEPT !.order = NoOrder, !.position = TRUE,
                        !.trade = [entry_bar |-> day, entry_price |-> bar.Open,
                                   sl |-> br.order.sl, tp |-> br.order.tp, size |-> size,
                                   signal_day |-> br.order.signal_day,
                                   order_day |-> br.order.day,
                                   order_price |-> br.order.price,
                                   order_signal |-> br.order.signal],
                        !.cash = @ - Commission(size, bar.Open)]

\* broker.next(), run by Backtest.run on every bar before strategy.next(): a
\* position.close() order closes the trade at the Open; otherwise the bracket
\* of the open trade is tried; a buy order is filled at the Open and its bracket
\* is tried on the same bar
BrokerNext(br, bar, day) ==
    IF br.order.kind = "close" /\ br.position
        THEN CloseTrade(br, bar.Open, day, "close")
    ELSE IF br.order.kind = "buy"
        THEN Bracket(FillBuy(br, bar, day), bar, day)
    ELSE Bracket(br, bar, day)

\* self.buy(sl=stop_loss, tp=take_profit): a market order, pending until the next bar
Buy(br, sl, tp, signal_day, day, price, signal) ==
    [br EXCEPT !.order = [kind |-> "buy", sl |-> sl, tp |-> tp,
                          signal_day |-> signal_day, day |-> day,
                          price |-> price, signal |-> signal]]

\* self.position.close(): a market order closing the trade, pending until the next bar
PositionClose(br) == [br EXCEPT !.order = [NoOrder EXCEPT !.kind = "close"]]

\* equity: cash plus the open trade's unrealised profit at the last Close
Equity(br, close) ==
    br.cash + (IF br.position THEN br.trade.size * (close - br.trade.entry_price) * Mills ELSE 0)

\* the gain of the run in thousandths; 'Return [%]' is Return / (cash * Mills) * 100,
\* so two runs compare by Return as they compare by 'Return [%]'
Return(br, close) == Equity(br, close) - cash * Mills

----------------------------------------------------------------------------
(* SwingTradingStrategy *)

\* init(), lines 93-94
NewStrategy == [buy_signal_day |-> None, entry_day |-> None]

\* self.macd_hist < self.macd_hist_thresh, line 117: self.macd_hist is the whole
\* indicator column revealed so far, so the comparison is element by element
ArrayLess(arr, x) == [i \in DOMAIN arr |-> arr[i] < x]

\* the truth value Python takes of that array in `... or (...)`: that of its one
\* element if it has one, and ValueError if it has more
Truth(arr) ==
    IF Len(arr) = 1 THEN (IF arr[1] THEN "True" ELSE "False") ELSE "ValueError"

\* line 100 with `or` for `and`
BuySignalEither(bar, p) == bar.RSI < p.RSI_thresh \/ bar.CCI < p.CCI_thresh

\* line 100: the RSI and CCI of the current bar are below the thresholds
BuySignal(bar, p) == bar.RSI < p.RSI_thresh /\ bar.CCI < p.CCI_thresh

\* line 107
StopLoss(price) == (price * 9) \div 10

\* line 108
TakeProfit(price, p) == (price * (p.tp_percent + 100)) \div 100

\* next() while there is no position, with the recorded signal day dropped when
\* the current bar does not qualify
EntryResetsSignal(s, br, bar, d, p) ==
    LET day == d.len
        signal_day == IF BuySignal(bar, p)
                      THEN (IF s.buy_signal_day = None THEN day ELSE s.buy_signal_day)
                      ELSE None
        current_price == bar.Close
        stop_loss == StopLoss(current_price)
        take_profit == TakeProfit(current_price, p)
    IN  IF signal_day # None /\ day - signal_day >= p.entry_delay
           /\ stop_loss < current_price /\ current_price < take_profit
        THEN [strategy |-> [buy_signal_day |-> None, entry_day |-> day],
              broker |-> Buy(br, stop_loss, take_profit, signal_day, day,
                             current_price, BuySignal(bar, p)),
              raised |-> FALSE]
        ELSE [strategy |-> [s EXCEPT !.buy_signal_day = signal_day],
              broker |-> br, raised |-> FALSE]

\* next() while there is no position, without the guard of line 111
EntryNoGuard(s, br, bar, d, p) ==
    LET day == d.len
        signal_day == IF BuySignal(bar, p) /\ s.buy_signal_day = None
                      THEN day ELSE s.buy_signal_day
        current_price == bar.Close
        stop_loss == StopLoss(current_price)
        take_profit == TakeProfit(current_price, p)
    IN  IF signal_day # None /\ day - signal_day >= p.entry_delay
        THEN [strategy |-> [buy_signal_day |-> None, entry_day |-> day],
              broker |-> Buy(br, stop_loss, take_profit, signal_day, day,
                             current_price, BuySignal(bar, p)),
              raised |-> FALSE]
        ELSE [strategy |-> [s EXCEPT !.buy_signal_day = signal_day],
              broker |-> br, raised |-> FALSE]

\* lines 98-114: next() while there is no position
Entry(s, br, bar, d, p) ==
    LET day == d.len
        signal_day == IF BuySignal(bar, p) /\ s.buy_signal_day = None
                      THEN day ELSE s.buy_signal_day
        current_price == bar.Close
        stop_loss == StopLoss(current_price)
        take_profit == TakeProfit(current_price, p)
    IN  IF signal_day # None /\ day - signal_day >= p.entry_delay
           /\ stop_loss < current_price /\ current_price < take_profit
        THEN [strategy |-> [buy_signal_day |-> None, entry_day |-> day],
              broker |-> Buy(br, stop_loss, take_profit, signal_day, day,
                             current_price, BuySignal(bar, p)),
              raised |-> FALSE]
        ELSE [strategy |-> [s EXCEPT !.buy_signal_day = signal_day],
              broker |-> br, raised |-> FALSE]

\* next() while there is a position, with the call of self.position.close() left out
ExitNoClose(s, br, d, p) ==
    LET held == d.len - s.entry_day >= p.hold_period
        reversal == IF held THEN "True"
                    ELSE Truth(ArrayLess(d.macd_hist, p.macd_hist_thresh))
    IN  [strategy |-> s, broker |-> br, raised |-> reversal = "ValueError"]

\* lines 115-118: next() while there is a position
Exit(s, br, d, p) ==
    LET held == d.len - s.entry_day >= p.hold_period
        reversal == IF held THEN "True"
                    ELSE Truth(ArrayLess(d.macd_hist, p.macd_hist_thresh))
    IN  [strategy |-> s,
         broker |-> IF reversal = "True" THEN PositionClose(br) ELSE br,
         raised |-> reversal = "ValueError"]

\* next() with the signal of line 100 recorded also while there is a position
StrategyNextSignalAnytime(s, br, bar, d, p) ==
    IF ~br.position THEN Entry(s, br, bar, d, p)
    ELSE LET x == Exit(s, br, d, p)
         IN  [x EXCEPT !.strategy.buy_signal_day =
                          IF BuySignal(bar, p) /\ @ = None THEN d.len ELSE @]

\* next() without the test of self.position at line 98
StrategyNextNoGuard(s, br, bar, d, p) == Entry(s, br, bar, d, p)

\* next(), lines 96-118
StrategyNext(s, br, bar, d, p) ==
    IF ~br.position THEN Entry(s, br, bar, d, p) ELSE Exit(s, br, d, p)

----------------------------------------------------------------------------
(* Backtest.run: one bar of the replay *)

\* the bar is revealed (len(self.data) grows by one, the indicator columns with
\* it), the broker processes its orders on it, then next() runs on it
Step(r, bar, p) ==
    LET d == [len |-> r.data.len + 1, macd_hist |-> Append(r.data.macd_hist, bar.MACD_Hist),
              Open |-> bar.Open, Close |-> bar.Close]
        br == BrokerNext(r.broker, bar, d.len)
        n == StrategyNext(r.strategy, br, bar, d, p)
    IN  [data |-> d, strategy |-> n.strategy, broker |-> n.broker,
         status |-> IF n.raised THEN "error" ELSE "running",
         qualified |-> r.qualified
                       \/ (bar.RSI < p.RSI_thresh /\ bar.CCI < p.CCI_thresh)]

\* the run before its first bar is replayed: Backtest.run builds a new broker and
\* a new strategy and calls init(); the first bar of the data is only warm-up
\* (the replay starts after it), so next() never sees fewer than two bars
NewRun(first) ==
    [data |-> [len |-> 1, macd_hist |-> <<first.MACD_Hist>>,
               Open |-> first.Open, Close |-> first.Close],
     strategy |-> NewStrategy, broker |-> NewBroker, status |-> "running",
     qualified |-> FALSE]

\* bars of the series replayed
SeriesLen == IF feed = "flat" THEN FlatBars ELSE MaxBars

\* the bars the series may continue with
NextBars == IF feed = "flat" THEN {FlatBar(data.len + 1)} ELSE Bars

\* nothing returned by optimize (yet)
NoStats == [params |-> Defaults, trades |-> 0, ret |-> 0, returned |-> FALSE]

----------------------------------------------------------------------------
(* One run as a state machine *)

Init ==
    /\ \/ feed = "any" /\ params \in ParamSets
       \/ feed = "flat" /\ params = FlatParams
    /\ \E first \in (IF feed = "flat" THEN {FlatBar(1)} ELSE Bars) :
         LET r == NewRun(first)
         IN  /\ data = r.data
             /\ strategy = r.strategy
             /\ broker = r.broker
             /\ status = r.status
             /\ qualified = r.qualified
    /\ series = << >>
    /\ ranges = << >>
    /\ max_tries = 0
    /\ param_combos = << >>
    /\ heatmap = << >>
    /\ completed = << >>
    /\ search = "idle"
    /\ stats = NoStats
    /\ workers = << >>
    /\ results = << >>

\* Backtest.run replays the next bar
NextBar ==
    /\ status = "running"
    /\ data.len < SeriesLen
    /\ \E bar \in NextBars :
         LET r == Step([data |-> data, strategy |-> strategy, broker |-> broker,
                        status |-> status, qualified |-> qualified], bar, params)
         IN  /\ data' = r.data
             /\ strategy' = r.strategy
             /\ broker' = r.broker
             /\ status' = r.status
             /\ qualified' = r.qualified
    /\ UNCHANGED <<params, feed>>
    /\ UNCHANGED searchVars
    /\ UNCHANGED workerVars

\* Backtest.run has replayed the last bar
Finish ==
    /\ status = "running"
    /\ data.len = SeriesLen
    /\ status' = "done"
    /\ UNCHANGED <<params, feed, data, strategy, broker, qualified>>
    /\ UNCHANGED searchVars
    /\ UNCHANGED workerVars

Next == NextBar \/ Finish

Spec == Init /\ [][Next]_vars

----------------------------------------------------------------------------
(* Backtest.optimize, lines 152-159: the search over the parameter grid.     *)
(* The grid of main() has 18 * 20 * 10 * 32 * 50 * 15 combinations and       *)
(* max_tries = 10000; the model searches small grids, with max_tries below   *)
(* the grid size (as in main) and at it.                                     *)

\* the bars of the series the search replays: flat, RSI and CCI qualifying or
\* not; a gap down and a spike, both qualifying
SearchBars ==
    { b \in Bars :
        /\ b.MACD_Hist = 1
        /\ \/ b.RSI = 20 /\ b.CCI = -150
           \/ b.RSI = 40 /\ b.CCI = -50 /\ b.High = 100 /\ b.Low = 100 /\ b.Open = 100
        /\ b.High = 150 => b.Low = 100
        /\ b.Low = 90 => FALSE }

\* bars of the series the search replays
SearchLen == 4

SearchSeries == [1..SearchLen -> SearchBars]

\* the ranges given to optimize, in the order of its keyword arguments (lines
\* 152-157): hold_period, RSI_thresh, CCI_thresh, macd_hist_thresh, tp_percent,
\* entry_delay
SearchRanges == << <<1, 2>>, <<10, 30>>, <<-100>>, <<0>>, <<30>>, <<0>> >>

\* the same with no candidate value for RSI_thresh
EmptyRanges == << <<1, 2>>, << >>, <<-100>>, <<0>>, <<30>>, <<0>> >>

\* optimize(max_tries=): below the grid size and at it
MaxTriesValues == {2, 4}

\* Backtest.run(**params) over the whole series
RECURSIVE Replay(_, _, _, _)
Replay(r, bars, i, p) ==
    IF r.status = "error" THEN r
    ELSE IF i > Len(bars) THEN [r EXCEPT !.status = "done"]
    ELSE Replay(Step(r, bars[i], p), bars, i + 1, p)

Run(bars, p) == Replay(NewRun(bars[1]), bars, 2, p)

\* what a run returns: its parameters, '# Trades' (the closed trades), its
\* return; or it raised
RunStats(bars, p) ==
    LET r == Run(bars, p)
    IN  [params |-> p, trades |-> Len(r.broker.closed_trades),
         ret |-> Return(r.broker, r.data.Close), raised |-> r.status = "error"]

\* number of combinations of the ranges
RECURSIVE Weight(_, _)
Weight(rg, j) == IF j >= Len(rg) THEN 1 ELSE Len(rg[j + 1]) * Weight(rg, j + 1)

GridSize(rg) == Len(rg[1]) * Weight(rg, 1)

\* the value of parameter j in combination k with the first parameter varying fastest
RECURSIVE WeightBelow(_, _)
WeightBelow(rg, j) == IF j <= 1 THEN 1 ELSE Len(rg[j - 1]) * WeightBelow(rg, j - 1)

PickFirstFastest(rg, k, j) == rg[j][(((k - 1) \div WeightBelow(rg, j)) % Len(rg[j])) + 1]

\* the value of parameter j in combination k of the product of the ranges, the
\* last parameter varying fastest (itertools.product)
Pick(rg, k, j) == rg[j][(((k - 1) \div Weight(rg, j)) % Len(rg[j])) + 1]

Combo(rg, k) ==
    [hold_period |-> Pick(rg, k, 1), RSI_thresh |-> Pick(rg, k, 2),
     CCI_thresh |-> Pick(rg, k, 3), macd_hist_thresh |-> Pick(rg, k, 4),
     tp_percent |-> Pick(rg, k, 5), entry_delay |-> Pick(rg, k, 6)]

Product(rg) == [k \in 1..GridSize(rg) |-> Combo(rg, k)]

\* the combinations of `seq` whose index is in `keep`, in order
RECURSIVE Kept(_, _, _)
Kept(seq, keep, n) ==
    IF n = 0 THEN << >>
    ELSE IF n \in keep THEN Append(Kept(seq, keep, n - 1), seq[n])
    ELSE Kept(seq, keep, n - 1)

\* the grid is searched exhaustively only when max_tries falls short of no combination
ExhaustiveOff(tries, size) == tries > size

\* max_tries / grid size >= 1: every combination is run
Exhaustive(tries, size) == tries >= size

\* the heatmap's value of a run not yet returned, and of a run without trades
NaN == [nan |-> TRUE, value |-> 0]

\* maximize='Return [%]', line 158; a run that closed no trade counts as NaN
Value(st) == IF st.trades = 0 THEN NaN ELSE [nan |-> FALSE, value |-> st.ret]

\* the maximum sought among the runs in the order they returned
IdxMaxArrival(h) ==
    IF \A k \in DOMAIN h : h[k].nan THEN 0
    ELSE LET best == CHOOSE i \in DOMAIN completed :
                        /\ ~h[completed[i]].nan
                        /\ \A j \in DOMAIN completed :
                              ~h[completed[j]].nan =>
                                 \/ h[completed[j]].value < h[completed[i]].value
                                 \/ h[completed[j]].value = h[completed[i]].value /\ j >= i
         IN  completed[best]

\* heatmap.idxmax(): the first combination, in the order of param_combos, with
\* the greatest value, NaN skipped; 0 if there is none
IdxMax(h) ==
    IF \A k \in DOMAIN h : h[k].nan THEN 0
    ELSE CHOOSE k \in DOMAIN h :
            /\ ~h[k].nan
            /\ \A j \in DOMAIN h :
                  ~h[j].nan => \/ h[j].value < h[k].value
                               \/ h[j].value = h[k].value /\ j >= k

\* optimize goes on with no parameter combination to run
NoCombosUnchecked(combos) == FALSE

\* optimize raises ValueError when it is left with no parameter combination to
\* run: a range without values, or a sample that kept nothing
NoCombos(combos) == combos = << >>

InitSearch ==
    /\ series \in SearchSeries
    /\ ranges \in {SearchRanges, EmptyRanges}
    /\ max_tries \in MaxTriesValues
    /\ param_combos = << >>
    /\ heatmap = << >>
    /\ completed = << >>
    /\ search = "new"
    /\ stats = NoStats
    /\ params = Defaults
    /\ feed = "none"
    /\ data = NewRun(series[1]).data
    /\ strategy = NewStrategy
    /\ broker = NewBroker
    /\ status = "idle"
    /\ qualified = FALSE
    /\ workers = << >>
    /\ results = << >>

\* optimize builds param_combos: every combination of the product, or, with
\* max_tries below the grid size, those a random draw per combination keeps;
\* none kept raises ValueError
Sample ==
    /\ search = "new"
    /\ \E keep \in SUBSET (1..GridSize(ranges)) :
         /\ Exhaustive(max_tries, GridSize(ranges)) => keep = 1..GridSize(ranges)
         /\ param_combos' = Kept(Product(ranges), keep, GridSize(ranges))
         /\ heatmap' = [k \in 1..Cardinality(keep) |-> NaN]
         /\ search' = IF NoCombos(Kept(Product(ranges), keep, GridSize(ranges)))
                      THEN "error" ELSE "running"
    /\ UNCHANGED <<series, ranges, max_tries, completed, stats>>
    /\ UNCHANGED runVars
    /\ UNCHANGED workerVars

\* the run of combination k returns (the runs are handed to worker processes
\* and taken as they complete): its value is stored in the heatmap; if it
\* raised, optimize raises
Complete(k) ==
    /\ search = "running"
    /\ k \in DOMAIN param_combos
    /\ \A i \in DOMAIN completed : completed[i] # k
    /\ LET st == RunStats(series, param_combos[k])
       IN  /\ completed' = Append(completed, k)
           /\ heatmap' = IF st.raised THEN heatmap ELSE [heatmap EXCEPT ![k] = Value(st)]
           /\ search' = IF st.raised THEN "error" ELSE "running"
    /\ UNCHANGED <<series, ranges, max_tries, param_combos, stats>>
    /\ UNCHANGED runVars
    /\ UNCHANGED workerVars

\* all runs have returned: optimize runs the best combination once more (the
\* first combination if no run closed a trade) and returns its stats
Best ==
    /\ search = "running"
    /\ Len(completed) = Len(param_combos)
    /\ LET best == IdxMax(heatmap)
           st == RunStats(series, param_combos[IF best = 0 THEN 1 ELSE best])
       IN  stats' = [params |-> st.params, trades |-> st.trades, ret |-> st.ret,
                     returned |-> TRUE]
    /\ search' = "done"
    /\ UNCHANGED <<series, ranges, max_tries, param_combos, heatmap, completed>>
    /\ UNCHANGED runVars
    /\ UNCHANGED workerVars

NextSearch == Sample \/ (\E k \in 1..GridSize(ranges) : Complete(k)) \/ Best

SearchSpec == InitSearch /\ [][NextSearch]_vars

----------------------------------------------------------------------------
(* The runs of a search inside its worker processes.  optimize hands the     *)
(* combinations to worker processes; a worker runs the combinations it is    *)
(* given one after the other with the same Backtest (line 151), and the runs *)
(* of different workers interleave.                                          *)

\* the bars of the series these runs replay: flat, RSI and CCI qualifying or
\* not, and a qualifying gap down
TrialBars == { b \in SearchBars : b.High # 150 }

TrialSeries == [1..SearchLen -> TrialBars]

\* the ranges of these runs: hold_period 1 or 2, entry_delay 0 or 2
TrialRanges == << <<1, 2>>, <<30>>, <<-100>>, <<0>>, <<30>>, <<0, 2>> >>

\* two worker processes
Workers == {1, 2}

\* Backtest.run starts a run on top of what the worker's last run left behind,
\* with init() not setting buy_signal_day and entry_day anew
StartRunKeepsStrategy(prev, first) == [NewRun(first) EXCEPT !.strategy = prev.strategy]

\* Backtest.run starts a run: whatever the worker's last run left behind, the
\* run gets a new broker and a new strategy, and init() (lines 84-94) sets
\* buy_signal_day and entry_day to None
StartRun(prev, first) == NewRun(first)

\* what a run that has ended returns, or that it raised
Outcome(r, p) ==
    [params |-> p, trades |-> Len(r.broker.closed_trades),
     ret |-> Return(r.broker, r.data.Close), raised |-> r.status = "error"]

NoOutcome == [done |-> FALSE, stats |-> [NoStats EXCEPT !.returned = FALSE]]

\* combination k has been handed to a worker
Started(k) == results[k].done \/ \E w \in Workers : workers[w].k = k

InitTrials ==
    /\ series \in TrialSeries
    /\ ranges = TrialRanges
    /\ max_tries = GridSize(TrialRanges)
    /\ param_combos = Product(TrialRanges)
    /\ heatmap = << >>
    /\ completed = << >>
    /\ search = "running"
    /\ stats = NoStats
    /\ params = Defaults
    /\ feed = "none"
    /\ data = NewRun(series[1]).data
    /\ strategy = NewStrategy
    /\ broker = NewBroker
    /\ status = "idle"
    /\ qualified = FALSE
    /\ workers = [w \in Workers |-> [k |-> 0, run |-> [NewRun(series[1]) EXCEPT !.status = "idle"]]]
    /\ results = [k \in 1..GridSize(TrialRanges) |-> NoOutcome]

\* worker w, between two runs, starts the run of combination k
StartTrial(w, k) ==
    /\ workers[w].k = 0
    /\ workers[w].run.status # "error"
    /\ k \in DOMAIN param_combos
    /\ ~Started(k)
    /\ workers' = [workers EXCEPT ![w] = [k |-> k, run |-> StartRun(@.run, series[1])]]
    /\ UNCHANGED results
    /\ UNCHANGED runVars
    /\ UNCHANGED searchVars

\* the run of worker w replays its next bar
TrialBar(w) ==
    /\ workers[w].k # 0
    /\ workers[w].run.status = "running"
    /\ workers[w].run.data.len < Len(series)
    /\ workers' = [workers EXCEPT ![w].run =
                      Step(@, series[@.data.len + 1], param_combos[workers[w].k])]
    /\ UNCHANGED results
    /\ UNCHANGED runVars
    /\ UNCHANGED searchVars

\* the run of worker w has replayed the last bar, or next() has raised: the
\* worker hands back what the run returned; after an exception it runs nothing more
EndTrial(w) ==
    /\ workers[w].k # 0
    /\ \/ workers[w].run.status = "error"
       \/ workers[w].run.data.len = Len(series)
    /\ results' = [results EXCEPT ![workers[w].k] =
                      [done |-> TRUE,
                       stats |-> Outcome(workers[w].run, param_combos[workers[w].k])]]
    /\ workers' = [workers EXCEPT ![w].k = 0]
    /\ UNCHANGED runVars
    /\ UNCHANGED searchVars

NextTrials ==
    \E w \in Workers :
        \/ \E k \in 1..GridSize(TrialRanges) : StartTrial(w, k)
        \/ TrialBar(w)
        \/ EndTrial(w)

TrialsSpec == InitTrials /\ [][NextTrials]_vars

----------------------------------------------------------------------------
(* The call of optimize, lines 152-159: Python evaluates the arguments from  *)
(* left to right, each range(start, stop, step) to its values, then calls.   *)
(* macd_hist_thresh is held in tenths and tp_percent in hundredths: the n of *)
(* `n/10 for n in range(...)` and of `n/100 for n in range(...)`.            *)

\* range(start, stop, step) with stop among its values
PyRangeInclusive(start, stop, step) ==
    [i \in 1..(((stop - start) \div step) + 1) |-> start + (i - 1) * step]

\* range(start, stop, step), step > 0: start, start + step, ... below stop
PyRange(start, stop, step) ==
    [i \in 1..((stop - start + step - 1) \div step) |-> start + (i - 1) * step]

\* the arguments of the six ranges in the source, in order: hold_period,
\* RSI_thresh, CCI_thresh, macd_hist_thresh, tp_percent, entry_delay
MainArgs ==
    << <<10, 100, 5>>, <<10, 50, 2>>, <<-300, -100, 20>>,
       <<-400, 400, 25>>, <<50, 5000, 100>>, <<0, 30, 2>> >>

\* other arguments the ranges are evaluated with
OtherArgs ==
    << <<10, 100, 10>>, <<10, 50, 4>>, <<-300, -100, 40>>,
       <<-400, 400, 50>>, <<50, 5000, 1>>, <<0, 30, 3>> >>

\* max_tries=10000, line 159
MainMaxTries == 10000

InitCall ==
    /\ ranges = << >>
    /\ max_tries = 0
    /\ feed = "main"
    /\ search = "idle"
    /\ series = << >>
    /\ param_combos = << >>
    /\ heatmap = << >>
    /\ completed = << >>
    /\ stats = NoStats
    /\ params = Defaults
    /\ data = NewRun(FlatBar(1)).data
    /\ strategy = NewStrategy
    /\ broker = NewBroker
    /\ status = "idle"
    /\ qualified = FALSE
    /\ workers = << >>
    /\ results = << >>

\* the next range is evaluated: with the arguments of the source (feed stays
\* "main" as long as all of them are) or with others
EvalRange ==
    /\ search = "idle"
    /\ Len(ranges) < Len(MainArgs)
    /\ \E a \in {MainArgs[Len(ranges) + 1], OtherArgs[Len(ranges) + 1]} :
         /\ ranges' = Append(ranges, PyRange(a[1], a[2], a[3]))
         /\ feed' = IF a = MainArgs[Len(ranges) + 1] THEN feed ELSE "other"
    /\ UNCHANGED <<max_tries, search, series, param_combos, heatmap, completed, stats>>
    /\ UNCHANGED <<params, data, strategy, broker, status, qualified>>
    /\ UNCHANGED workerVars

\* optimize is called with the six ranges and max_tries
CallOptimize ==
    /\ search = "idle"
    /\ Len(ranges) = Len(MainArgs)
    /\ max_tries' = MainMaxTries
    /\ search' = "new"
    /\ UNCHANGED <<ranges, feed, series, param_combos, heatmap, completed, stats>>
    /\ UNCHANGED <<params, data, strategy, broker, status, qualified>>
    /\ UNCHANGED workerVars

NextCall == EvalRange \/ CallOptimize

CallSpec == InitCall /\ [][NextCall]_vars

----------------------------------------------------------------------------
(* Properties of one run *)

\* the closed trades and, if a position is open, its trade
Closed == broker.closed_trades

ClosedIdx == DOMAIN broker.closed_trades

\* C1: at most one position is open at any time.  The trades of the log occupy
\* disjoint ranges of days (each trade is entered strictly after the trade
\* before it was exited), the position that is open was entered after every
\* logged exit, and a buy order is pending only while no position is open, so
\* no entry is made while a position is open.
C1_OnePosition ==
    /\ \A i, j \in ClosedIdx :
          i < j => Closed[i].exit_bar < Closed[j].entry_bar
    /\ \A i \in ClosedIdx : Closed[i].entry_bar <= Closed[i].exit_bar
    /\ broker.position =>
          \A i \in ClosedIdx : Closed[i].exit_bar < broker.trade.entry_bar
    /\ broker.order.kind = "buy" =>
          /\ ~broker.position
          /\ \A i \in ClosedIdx : Closed[i].exit_bar <= broker.order.day

\* C1 witness: two trades are in the log and a third position is open
C1_Witness == Len(Closed) >= 2 /\ broker.position

\* every trade of the run: the logged ones and the open one
Trades ==
    { Closed[i] : i \in ClosedIdx }
        \cup (IF broker.position THEN {broker.trade} ELSE {})

\* C2 as claimed: every logged trade is exited strictly after the day it was
\* entered, and at most hold_period days after it.
C2_Original ==
    \A i \in ClosedIdx :
        /\ Closed[i].exit_bar > Closed[i].entry_bar
        /\ Closed[i].exit_bar - Closed[i].entry_bar <= params.hold_period

\* C2 amended: no trade is exited before it was entered or more than hold_period
\* days after it; the stop-loss or the take-profit may exit it on the very day
\* it was entered, while the exit ordered by next() (hold period, MACD
\* histogram) comes on a later day; and a position that is open has been open
\* for fewer than hold_period days.
C2_ExitWithinHoldPeriod ==
    /\ \A i \in ClosedIdx :
          /\ Closed[i].exit_bar >= Closed[i].entry_bar
          /\ Closed[i].exit_bar - Closed[i].entry_bar <= params.hold_period
          /\ Closed[i].reason = "close" => Closed[i].exit_bar > Closed[i].entry_bar
    /\ broker.position => data.len - broker.trade.entry_bar < params.hold_period

\* C2 witness: one trade was stopped out on the day it was entered, another was
\* closed by next() exactly hold_period days after its entry
C2_Witness ==
    /\ \E i \in ClosedIdx :
          Closed[i].reason = "sl" /\ Closed[i].exit_bar = Closed[i].entry_bar
    /\ \E i \in ClosedIdx :
          /\ Closed[i].reason = "close"
          /\ Closed[i].exit_bar - Closed[i].entry_bar = params.hold_period

\* C3 as claimed: with tp_percent > 0 the position is opened on day
\* signal day + entry_delay at that day's Close.
C3_Original ==
    params.tp_percent > 0 =>
        \A t \in Trades :
            /\ t.entry_bar = t.signal_day + params.entry_delay
            /\ t.entry_price = t.order_price

\* a recorded signal day is pending no longer than entry_delay; every order was
\* placed on day signal day + entry_delay with the bracket computed from that
\* day's Close, and filled on the following day at its Open
C3_EntryTiming ==
    /\ (params.tp_percent > 0 /\ strategy.buy_signal_day # None) =>
          /\ strategy.buy_signal_day <= data.len
          /\ data.len - strategy.buy_signal_day < params.entry_delay
    /\ broker.order.kind = "buy" =>
          /\ broker.order.day = broker.order.signal_day + params.entry_delay
          /\ broker.order.day = data.len
          /\ broker.order.price = data.Close
    /\ \A t \in Trades :
          /\ t.order_day = t.signal_day + params.entry_delay
          /\ t.entry_bar = t.order_day + 1
          /\ 10 * t.sl = 9 * t.order_price
          /\ 100 * t.tp = t.order_price * (100 + params.tp_percent)
          /\ params.tp_percent > 0
    /\ (broker.position /\ broker.trade.entry_bar = data.len) =>
          broker.trade.entry_price = data.Open

\* a recorded signal day goes away only by the order being placed for it
C3_SignalLocked ==
    strategy.buy_signal_day # None =>
        \/ strategy'.buy_signal_day = strategy.buy_signal_day
        \/ /\ strategy'.buy_signal_day = None
           /\ broker'.order.kind = "buy"
           /\ broker'.order.signal_day = strategy.buy_signal_day
           /\ broker'.order.day = data'.len

\* C3 amended: once a buy signal is recorded on day s while flat, later bars
\* neither reset nor cancel it, and for tp_percent > 0 the buy order is placed
\* on exactly day s + entry_delay, with stop-loss and take-profit computed from
\* that day's Close; the position is opened on the following day, at its Open.
C3_SignalLockedEntryNextOpen == []C3_EntryTiming /\ [][C3_SignalLocked]_vars

\* C3 witness: a position is open whose order was placed one day after the
\* signal, on a bar that itself no longer qualified, and that was entered at
\* an Open different from the Close of the order day
C3_Witness ==
    /\ broker.position
    /\ params.entry_delay = 1
    /\ ~broker.trade.order_signal
    /\ broker.trade.entry_price # broker.trade.order_price

\* C4: if no bar handed to next() has RSI below RSI_thresh and CCI below
\* CCI_thresh, the run stays flat: no signal is recorded, no order placed,
\* no position opened, the trade log is empty, next() never raises, equity is
\* the starting cash and the return is 0.
C4_NoSignalNoTrade ==
    ~qualified =>
        /\ strategy.buy_signal_day = None
        /\ strategy.entry_day = None
        /\ broker.order.kind = "none"
        /\ ~broker.position
        /\ Closed = << >>
        /\ status # "error"
        /\ Equity(broker, data.Close) = cash * Mills
        /\ Return(broker, data.Close) = 0

\* C4 witness: a run has replayed all its bars and none qualified
C4_Witness == status = "done" /\ ~qualified /\ data.len = MaxBars

\* C6 as claimed: the run over the flat-price series (Close = 100, RSI and CCI
\* qualifying from day 5 on, no MACD reversal, entry_delay = 5, hold_period =
\* 10, tp_percent = 0.30) ends with exactly one trade in its log: entered on
\* day 10 at 100 with stop-loss 90 and take-profit 130, closed on day 20 at 100
\* by the hold period, its loss being the two commissions.
C6_FlatScenario ==
    (feed = "flat" /\ status # "running") =>
        /\ status = "done"
        /\ Len(Closed) = 1
        /\ Closed[1].signal_day = 5
        /\ Closed[1].entry_bar = 10
        /\ Closed[1].entry_price = 100
        /\ Closed[1].sl = 90
        /\ Closed[1].tp = 130
        /\ Closed[1].exit_bar = 20
        /\ Closed[1].exit_price = 100
        /\ Closed[1].reason = "close"
        /\ Closed[1].pl = - 2 * Commission(Closed[1].size, 100)

\* the days on which the signals of the run were recorded that came to an order
\* or are pending, each with the day its order was filled (0 if not yet)
Signals ==
    { [day |-> t.signal_day, entry_bar |-> t.entry_bar] : t \in Trades }
        \cup (IF broker.order.kind = "buy"
              THEN {[day |-> broker.order.signal_day, entry_bar |-> 0]} ELSE {})
        \cup (IF strategy.buy_signal_day # None
              THEN {[day |-> strategy.buy_signal_day, entry_bar |-> 0]} ELSE {})

\* C19 as claimed: no signal is recorded while a position is open, the pending
\* signal is cleared when the position is opened, and the signal of every
\* entry was recorded on a bar strictly after the exit bar of the trade before.
C19_Original ==
    /\ broker.position => strategy.buy_signal_day = None
    /\ \A i \in ClosedIdx : \A g \in Signals :
          (g.entry_bar = 0 \/ g.entry_bar > Closed[i].entry_bar) =>
              g.day > Closed[i].exit_bar

\* C19 amended: no signal is recorded while a position is open and the pending
\* signal is cleared when the order of the entry is placed, so that after
\* every exit no signal is pending; the exit bar itself is tested for a signal
\* once the exit has been made, so the signal of the next entry is recorded on
\* the exit bar of the trade before or later, never while that trade was open.
C19_SignalsOnlyWhileFlat ==
    /\ broker.position => strategy.buy_signal_day = None
    /\ broker.order.kind = "buy" => strategy.buy_signal_day = None
    /\ \A i \in ClosedIdx : \A g \in Signals :
          (g.entry_bar = 0 \/ g.entry_bar > Closed[i].entry_bar) =>
              g.day >= Closed[i].exit_bar
    /\ \A i \in ClosedIdx : \A g \in Signals :
          ~(Closed[i].entry_bar <= g.day /\ g.day < Closed[i].exit_bar)
    /\ broker.position =>
          \A g \in Signals : g.day < broker.trade.entry_bar

\* C19 witness: a position is open whose signal was recorded on the very bar
\* on which the trade before it was exited
C19_Witness ==
    /\ broker.position
    /\ \E i \in ClosedIdx : broker.trade.signal_day = Closed[i].exit_bar

\* C20 as claimed: every closed trade has its stop-loss at 0.9 times and its
\* take-profit at 1 + tp_percent times its entry price, its exit price lies
\* between the two, and it loses no more than a tenth of its entry price.
C20_Original ==
    \A i \in ClosedIdx :
        /\ 10 * Closed[i].sl = 9 * Closed[i].entry_price
        /\ 100 * Closed[i].tp = Closed[i].entry_price * (100 + params.tp_percent)
        /\ Closed[i].sl <= Closed[i].exit_price
        /\ Closed[i].exit_price <= Closed[i].tp
        /\ 10 * (Closed[i].entry_price - Closed[i].exit_price) <= Closed[i].entry_price

\* the trade closed by this step has its bracket from the Close of the day of
\* its order and exits at its stop-loss, or at the Open of the bar if that is
\* lower; at its take-profit, or at the Open if that is higher; and, closed by
\* next(), at the Open
C20_ExitPrice ==
    Len(Closed') = Len(Closed) + 1 =>
        LET c == Closed'[Len(Closed')]
            open == data'.Open
        IN  /\ 10 * c.sl = 9 * c.order_price
            /\ 100 * c.tp = c.order_price * (100 + params.tp_percent)
            /\ c.exit_bar = data'.len
            /\ c.reason = "sl" =>
                  /\ open >= c.sl => c.exit_price = c.sl
                  /\ open < c.sl => c.exit_price = open
            /\ c.reason = "tp" =>
                  /\ open <= c.tp => c.exit_price = c.tp
                  /\ open > c.tp => c.exit_price = open
            /\ c.reason = "close" => c.exit_price = open

\* C20 amended: with the stop-loss at 0.9 times and the take-profit at
\* 1 + tp_percent times the Close of the bar on which the order was placed, a
\* trade exits by its stop-loss at the stop-loss price, or at the bar's Open if
\* the bar opens below it; by its take-profit at the take-profit price, or at
\* the Open if the bar opens above it; and by next() at the Open of the
\* following bar.  The exit price is within the bracket only if the exit bar
\* opens within it, and a trade can lose more than a tenth of its entry price.
C20_ExitAtBracketOrOpen == [][C20_ExitPrice]_vars

\* C20 witness: one trade was exited below its stop-loss with a loss of more
\* than a tenth of its entry price, another took profit above its take-profit
C20_Witness ==
    /\ \E i \in ClosedIdx :
          /\ Closed[i].exit_price < Closed[i].sl
          /\ 10 * (Closed[i].entry_price - Closed[i].exit_price) > Closed[i].entry_price
    /\ \E i \in ClosedIdx :
          /\ Closed[i].reason = "tp"
          /\ Closed[i].exit_price > Closed[i].tp

----------------------------------------------------------------------------
(* Properties of the search *)

\* the search has ended: optimize returned or raised
SearchOver == search \in {"done", "error"}

\* the stats of the run of combination k of param_combos
StatsOf(k) == RunStats(series, param_combos[k])

\* C7 as claimed: given at least one candidate, the search returns a result
\* whose score is at least the score of every candidate run, and among the
\* candidates with that score it returns the first.
C7_Original ==
    (SearchOver /\ Len(param_combos) >= 1) =>
        /\ search = "done"
        /\ stats.returned
        /\ \A k \in DOMAIN param_combos : StatsOf(k).ret <= stats.ret
        /\ \E k \in DOMAIN param_combos :
              /\ stats.params = param_combos[k]
              /\ StatsOf(k).ret = stats.ret
              /\ \A j \in 1..(k - 1) : StatsOf(j).ret < stats.ret

\* position of value v in the range seq
Pos(seq, v) == CHOOSE i \in DOMAIN seq : seq[i] = v

\* combination a comes before combination b in the lexicographic order over the
\* parameters as declared and their candidate values as listed
LexLess(a, b) ==
    LET ia == << Pos(ranges[1], a.hold_period), Pos(ranges[2], a.RSI_thresh),
                 Pos(ranges[3], a.CCI_thresh), Pos(ranges[4], a.macd_hist_thresh),
                 Pos(ranges[5], a.tp_percent), Pos(ranges[6], a.entry_delay) >>
        ib == << Pos(ranges[1], b.hold_period), Pos(ranges[2], b.RSI_thresh),
                 Pos(ranges[3], b.CCI_thresh), Pos(ranges[4], b.macd_hist_thresh),
                 Pos(ranges[5], b.tp_percent), Pos(ranges[6], b.entry_delay) >>
    IN  \E j \in 1..6 : ia[j] < ib[j] /\ \A i \in 1..(j - 1) : ia[i] = ib[i]

\* every combination of candidate values
AllCombos ==
    { [hold_period |-> h, RSI_thresh |-> r, CCI_thresh |-> c, macd_hist_thresh |-> m,
       tp_percent |-> t, entry_delay |-> d] :
        h \in {ranges[1][i] : i \in DOMAIN ranges[1]},
        r \in {ranges[2][i] : i \in DOMAIN ranges[2]},
        c \in {ranges[3][i] : i \in DOMAIN ranges[3]},
        m \in {ranges[4][i] : i \in DOMAIN ranges[4]},
        t \in {ranges[5][i] : i \in DOMAIN ranges[5]},
        d \in {ranges[6][i] : i \in DOMAIN ranges[6]} }

Selected == { param_combos[k] : k \in DOMAIN param_combos }

RECURSIVE SeqBest(_, _, _)
SeqBest(bars, combos, n) ==
    IF n = 0 THEN 0
    ELSE LET b == SeqBest(bars, combos, n - 1)
             v == Value(RunStats(bars, combos[n]))
         IN  IF v.nan THEN b
             ELSE IF b = 0 THEN n
             ELSE IF v.value > Value(RunStats(bars, combos[b])).value THEN n
             ELSE b

\* what the search over `combos`, run one after the other, returns
SeqStats(bars, combos) ==
    LET b == SeqBest(bars, combos, Len(combos))
        st == RunStats(bars, combos[IF b = 0 THEN 1 ELSE b])
    IN  [params |-> st.params, trades |-> st.trades, ret |-> st.ret, returned |-> TRUE]

SomeRaises(bars, combos) == \E k \in DOMAIN combos : RunStats(bars, combos[k]).raised

\* C9: with max_tries at least the product size the search is deterministic:
\* whatever the order in which the runs return, the candidates are the whole
\* product and the outcome (the best stats, or an error) is the one function
\* of the series and the ranges that running the product in order gives (an
\* error also if the product is empty).
C9_ExhaustiveDeterministic ==
    max_tries >= Cardinality(AllCombos) =>
        /\ search # "new" =>
              /\ Len(param_combos) = Cardinality(AllCombos)
              /\ param_combos = Product(ranges)
        /\ search = "done" =>
              /\ stats = SeqStats(series, Product(ranges))
              /\ ~SomeRaises(series, Product(ranges))
        /\ search = "error" => (SomeRaises(series, Product(ranges)) \/ AllCombos = {})

\* C9 witness: an exhaustive search has returned a result with trades, its
\* runs having returned out of order
C9_Witness ==
    /\ search = "done"
    /\ max_tries >= Cardinality(AllCombos)
    /\ stats.trades > 0
    /\ \E i \in DOMAIN completed : completed[i] # i

\* C10: the outcome of the search does not depend on the order in which the
\* runs return: each run's value lands in the heatmap under its own
\* combination, and the result is that of taking the selected candidates one
\* after the other (strictly greater value wins); if some run raises, the
\* search raises in every order.
C10_MergeOrderIndependent ==
    /\ \A i \in DOMAIN completed :
          ~StatsOf(completed[i]).raised =>
              heatmap[completed[i]] = Value(StatsOf(completed[i]))
    /\ search = "done" =>
          /\ stats = SeqStats(series, param_combos)
          /\ ~SomeRaises(series, param_combos)
    /\ (search = "error" /\ param_combos # << >>) => SomeRaises(series, param_combos)

\* C10 witness: the search has returned; two candidates tie on the greatest
\* value, the later of them returned first, and the earlier is the result
C10_Witness ==
    /\ search = "done"
    /\ \E i, j \in DOMAIN param_combos :
          /\ i < j
          /\ ~heatmap[i].nan /\ ~heatmap[j].nan
          /\ heatmap[i].value = heatmap[j].value
          /\ \A k \in DOMAIN heatmap : ~heatmap[k].nan => heatmap[k].value <= heatmap[i].value
          /\ \E a, b \in DOMAIN completed : a < b /\ completed[a] = j /\ completed[b] = i
          /\ stats.params = param_combos[i]

\* C11 as claimed: when the run has replayed its last bar no position is left
\* open: a position open after the last bar has been closed at the last Close
\* and is in the trade log, and a signal still pending has led to no order.
C11_Original ==
    status = "done" =>
        /\ ~broker.position
        /\ strategy.buy_signal_day # None => broker.order.kind # "buy"

\* some parameter is given no candidate value
SomeRangeEmpty == \E j \in DOMAIN ranges : ranges[j] = << >>

\* C12: if a range given to the search is empty, the search fails before any
\* run: it never gets to run a candidate, no run returns, nothing is stored in
\* the heatmap and no result is returned.
C12_EmptyRangeFailsFast ==
    SomeRangeEmpty =>
        /\ search \in {"new", "error"}
        /\ param_combos = << >>
        /\ completed = << >>
        /\ heatmap = << >>
        /\ ~stats.returned

\* C12 witness: a search given an empty range has failed
C12_Witness == SomeRangeEmpty /\ search = "error"

\* C13 as claimed: a run that raises aborts only itself: the search goes on
\* with the other candidates, and the result it returns is the best of the
\* runs that did not raise.
C13_Original ==
    (\E i \in DOMAIN completed : StatsOf(completed[i]).raised) =>
        /\ search \in {"running", "done"}
        /\ search = "done" =>
              /\ stats.returned
              /\ ~RunStats(series, stats.params).raised

\* C14 as claimed: on a bar with a position open the exits are resolved in a
\* fixed order: a trade stopped out exits at its stop-loss price, a trade
\* taking profit at its take-profit price, and otherwise the forced exit (hold
\* period, or MACD histogram when the hold period has not elapsed) is decided
\* and made on that very bar, at its Close; so no close is left pending after
\* a bar and the test of the forced exit never fails.
C14_Original ==
    /\ \A i \in ClosedIdx :
          /\ Closed[i].reason = "sl" => Closed[i].exit_price = Closed[i].sl
          /\ Closed[i].reason = "tp" => Closed[i].exit_price = Closed[i].tp
    /\ broker.order.kind # "close"
    /\ status # "error"

\* C15 as claimed: on every bar that next() sees with a position open, the
\* exit is ordered exactly when the hold period has elapsed or the MACD
\* histogram of that bar is below macd_hist_thresh, whatever the histogram of
\* the earlier bars, and the test itself never fails.
C15_Original ==
    broker.position =>
        /\ status # "error"
        /\ broker.order.kind = "close" <=>
              \/ data.len - strategy.entry_day >= params.hold_period
              \/ data.macd_hist[data.len] < params.macd_hist_thresh

\* C16 as claimed: with tp_percent > 0 the guard holds whenever the entry
\* delay has elapsed, so the position is opened on that very bar: no buy order
\* is left pending after a bar and every trade was entered on the day of its order.
C16_Original ==
    params.tp_percent > 0 =>
        /\ broker.order.kind # "buy"
        /\ \A t \in Trades : t.entry_bar = t.order_day

\* the bracket of every order is 0.9 and 1 + tp_percent times the Close of its
\* day and passes the guard; with tp_percent > 0 no signal stays pending once
\* its delay has elapsed; with the guard failing (tp_percent = 0) nothing is
\* ordered, traded or charged
C16_Bracket ==
    /\ broker.order.kind = "buy" =>
          /\ broker.order.day = data.len
          /\ broker.order.price = data.Close
          /\ 10 * broker.order.sl = 9 * broker.order.price
          /\ 100 * broker.order.tp = broker.order.price * (100 + params.tp_percent)
          /\ broker.order.sl < broker.order.price
          /\ broker.order.price < broker.order.tp
    /\ (params.tp_percent > 0 /\ strategy.buy_signal_day # None) =>
          data.len - strategy.buy_signal_day < params.entry_delay
    /\ \A t \in Trades : t.entry_bar = t.order_day + 1
    /\ params.tp_percent = 0 => broker = NewBroker

\* with the guard failing the recorded signal day stays as it is
C16_GuardFailsSignalKept ==
    (params.tp_percent = 0 /\ strategy.buy_signal_day # None) =>
        strategy'.buy_signal_day = strategy.buy_signal_day

\* C16 amended: when the entry delay has elapsed the bracket is 0.9 * Close[i]
\* and Close[i] * (1 + tp_percent); for tp_percent > 0 the guard holds and the
\* buy order is placed on that bar, the position being opened on the following
\* bar; if the guard fails the signal day stays as recorded, nothing is ordered,
\* charged or traded, and the guard is tried again on the following bars.
C16_BracketAndGuard == []C16_Bracket /\ [][C16_GuardFailsSignalKept]_vars

\* C16 witness: the guard has failed on several bars in a row: the signal is
\* still pending more than entry_delay bars after it was recorded, and the run
\* has gone through all its bars without an order
C16_Witness ==
    /\ params.tp_percent = 0
    /\ strategy.buy_signal_day # None
    /\ data.len - strategy.buy_signal_day > params.entry_delay + 1
    /\ status = "done"

----------------------------------------------------------------------------
(* Properties of the runs inside the worker processes *)

\* the run of worker w is where a run of its combination alone, over the bars
\* replayed so far, would be
AsAlone(w) ==
    LET run == workers[w].run
        alone == Run(SubSeq(series, 1, run.data.len), param_combos[workers[w].k])
    IN  /\ alone.data = run.data
        /\ alone.strategy = run.strategy
        /\ alone.broker = run.broker
        /\ (alone.status = "error") <=> (run.status = "error")

\* every run in progress is where it would be alone, and every run that has
\* ended returned what it returns alone
C17_AsAlone ==
    /\ \A w \in Workers : workers[w].k # 0 => AsAlone(w)
    /\ \A k \in DOMAIN results :
          results[k].done => results[k].stats = RunStats(series, param_combos[k])

\* C17: a run is a function of the series and its parameters: whatever runs its
\* worker did before it and whatever runs go on beside it, it goes through the
\* states and returns the result of the run done alone; and no run changes the series.
C17_TrialPure == []C17_AsAlone /\ [][series' = series]_vars

\* C17 witness: two runs are in progress side by side, one of them with a
\* position open, in a worker that has done a run with trades before
C17_Witness ==
    \E w, v \in Workers :
        /\ w # v
        /\ workers[w].k # 0 /\ workers[v].k # 0
        /\ workers[w].run.data.len = 3 /\ workers[v].run.data.len = 2
        /\ workers[w].run.broker.position
        /\ \E k \in DOMAIN results : results[k].done /\ results[k].stats.trades > 0

----------------------------------------------------------------------------
(* Properties of the call of optimize *)

\* seq is first, first + step, ..., last
Stepped(seq, first, step, last) ==
    /\ Len(seq) = ((last - first) \div step) + 1
    /\ \A i \in DOMAIN seq : seq[i] = first + (i - 1) * step
    /\ seq[Len(seq)] = last

\* optimize has been called with the arguments of the source
MainCall == feed = "main" /\ search = "new"

\* C18 as claimed: optimize is called with hold_period 10, 15, ..., 95,
\* RSI_thresh 10, 12, ..., 48, CCI_thresh -300, -280, ..., -120,
\* macd_hist_thresh -40.0, -37.5, ..., 39.5, tp_percent 0.50, 0.51, ..., 49.99,
\* entry_delay 0, 2, ..., 28 and max_tries 10000.
C18_Original ==
    MainCall =>
        /\ Stepped(ranges[1], 10, 5, 95)
        /\ Stepped(ranges[2], 10, 2, 48)
        /\ Stepped(ranges[3], -300, 20, -120)
        /\ ranges[4][1] = -400 /\ ranges[4][2] = -375 /\ ranges[4][Len(ranges[4])] = 395
        /\ Stepped(ranges[5], 50, 1, 4999)
        /\ Stepped(ranges[6], 0, 2, 28)
        /\ max_tries = 10000

\* C18 amended: optimize is called with hold_period 10, 15, ..., 95,
\* RSI_thresh 10, 12, ..., 48, CCI_thresh -300, -280, ..., -120,
\* macd_hist_thresh -40.0, -37.5, ..., 37.5, tp_percent 0.50, 1.50, ..., 49.50,
\* entry_delay 0, 2, ..., 28 and max_tries 10000.
C18_CandidateLists ==
    MainCall =>
        /\ Stepped(ranges[1], 10, 5, 95)
        /\ Stepped(ranges[2], 10, 2, 48)
        /\ Stepped(ranges[3], -300, 20, -120)
        /\ Stepped(ranges[4], -400, 25, 375)
        /\ Stepped(ranges[5], 50, 100, 4950)
        /\ Stepped(ranges[6], 0, 2, 28)
        /\ max_tries = 10000
        /\ Len(ranges) = 6

\* C18 witness: optimize has been called with the arguments of the source,
\* among them 32 values of macd_hist_thresh and 50 of tp_percent
C18_Witness == MainCall /\ Len(ranges[4]) = 32 /\ Len(ranges[5]) = 50

====
